---- MODULE Spec2Model ----
(***************************************************************************)
(* CPU scheduling simulator of src/main.go: the three schedulers           *)
(* FCFSSchedule, SJFSchedule (shortest remaining time first) and           *)
(* SJFPrioritySchedule (preemptive priority on a container/heap min-heap), *)
(* with the Gantt helpers appendGantt / setStop and the statistics they    *)
(* report.  One action is one iteration of a scheduler's loop.             *)
(*                                                                         *)
(* Slices are 0-based in the source and 1-based here: an index k of the    *)
(* source is k + 1 in the model (curIdx, processesMapIdx, heap positions). *)
(***************************************************************************)
EXTENDS Integers, Sequences, FiniteSets, TLC

\* ------------------------------------------------------------------ bounds
MaxProcs == 2
MaxArrival == 2
MaxBurst == 2
MaxPriority == 1

\* math.MaxInt64 of the source.  The model only compares remaining times with
\* it (never adds to it), so any value above every remaining time behaves as
\* the source's; TLC's integers are 32 bits wide.
MaxInt64 == 2147483647

\* ------------------------------------------------------------- data types
Process(id, arrival, burst, priority) ==
    [ProcessID |-> id, ArrivalTime |-> arrival,
     BurstDuration |-> burst, Priority |-> priority]

TimeSlice(pid, start, stop) == [PID |-> pid, Start |-> start, Stop |-> stop]

\* One row of the schedule table (the source renders each field with
\* fmt.Sprint; the row keeps the integers that are printed).
Row(p, wait, turnaround, completion) ==
    [ProcessID |-> p.ProcessID, Priority |-> p.Priority,
     BurstDuration |-> p.BurstDuration, ArrivalTime |-> p.ArrivalTime,
     Wait |-> wait, Turnaround |-> turnaround, Exit |-> completion]

\* ----------------------------------------------------------------- inputs
\* The scenarios of the specification's section 8.
FCFSScenario ==
    <<Process(1, 0, 4, 0), Process(2, 1, 3, 0), Process(3, 2, 2, 0)>>

SRTFScenario == <<Process(1, 0, 5, 0), Process(2, 1, 2, 0)>>

\* Three processes that tie on priority and on burst, and three that arrive
\* in an order other than the order of the list.
TieScenario ==
    <<Process(1, 0, 2, 1), Process(2, 0, 2, 1), Process(3, 1, 1, 1)>>

UnsortedScenario ==
    <<Process(1, 0, 2, 1), Process(2, 1, 1, 0), Process(3, 0, 1, 0)>>

Attrs == (0..MaxArrival) \X (1..MaxBurst) \X (0..MaxPriority)

\* The list of m processes with unique ids (the position in the list as
\* loaded) and the attributes f gives: arrivalTime >= 0, burstDuration > 0.
ListOf(m, f) == [k \in 1..m |-> Process(k, f[k][1], f[k][2], f[k][3])]

Scenarios == {FCFSScenario, SRTFScenario, TieScenario, UnsortedScenario}

\* Every list of 1..MaxProcs processes within the bounds, and the scenarios.
IsInput(l) ==
    \/ \E m \in 1..MaxProcs : \E f \in [1..m -> Attrs] : l = ListOf(m, f)
    \/ l \in Scenarios

\* ------------------------------------------------------------------ state
VARIABLES
    input,              \* the list as loadProcesses returned it (never written)
    processes,          \* the caller's slice, which every scheduler receives
    policy,             \* "none", or the scheduler that runs: "FCFS", "SRTF", "Priority"
    pc,                 \* "idle", "loop", "report", "done", or "panic" (the run crashed)
    gantt,
    schedule,
    waitingTimes,
    turnAroundTimes,
    totalWait,
    totalTurnaround,
    lastCompletion,
    i,                  \* FCFS: index of the range loop
    serviceTime,
    waitingTime,
    remainTime,         \* SRTF
    t,
    curIdx,
    numsOfCompletion,
    minRemainTime,
    isCheck,
    insertedProcess,    \* Priority
    processesMapIdx,
    currentTime,
    minHeap,
    tempBurstDuration,
    executed            \* history: <<tick, process id>> of every tick that SRTF
                        \* and Priority execute (the calls of appendGantt)

outVars == <<gantt, schedule, waitingTimes, turnAroundTimes,
             totalWait, totalTurnaround, lastCompletion>>
fcfsVars == <<i, serviceTime, waitingTime>>
sjfVars == <<remainTime, t, curIdx, numsOfCompletion, minRemainTime, isCheck>>
prioVars == <<insertedProcess, processesMapIdx, currentTime, minHeap,
              tempBurstDuration>>
vars == <<input, processes, policy, pc, outVars, fcfsVars, sjfVars, prioVars,
          executed>>

n == Len(processes)

\* ---------------------------------------------------------------- helpers
RECURSIVE sum(_)
sum(nums) == IF nums = <<>> THEN 0 ELSE nums[1] + sum(Tail(nums))

Completion(p, wait) == p.BurstDuration + p.ArrivalTime + wait

\* Fault variant of appendGantt: every tick opens a new interval.
appendGanttAlways(g, process, start) ==
    Append(g, TimeSlice(process.ProcessID, start, 0))

appendGantt(g, process, start) ==
    IF Len(g) = 0 \/ g[Len(g)].PID # process.ProcessID
    THEN Append(g, TimeSlice(process.ProcessID, start, 0))
    ELSE g

setStop(g, stop) ==
    IF Len(g) > 0 THEN [g EXCEPT ![Len(g)].Stop = stop] ELSE g

\* Fault variant of findTurnAroundTimes: the waiting time is left out.
findTurnAroundTimesBurstOnly(procs, waits) ==
    [k \in 1..Len(procs) |-> procs[k].BurstDuration]

findTurnAroundTimes(procs, waits) ==
    [k \in 1..Len(procs) |-> procs[k].BurstDuration + waits[k]]

Zeros(m) == [k \in 1..m |-> 0]

\* The zero values the locals of the three schedulers start from.
ZeroOut ==
    /\ gantt' = <<>>
    /\ schedule' = <<>>
    /\ waitingTimes' = <<>>
    /\ turnAroundTimes' = <<>>
    /\ totalWait' = 0
    /\ totalTurnaround' = 0
    /\ lastCompletion' = 0

ZeroFCFS == i' = 1 /\ serviceTime' = 0 /\ waitingTime' = 0

ZeroSJF ==
    /\ remainTime' = <<>>
    /\ t' = 0
    /\ curIdx' = 1
    /\ numsOfCompletion' = 0
    /\ minRemainTime' = MaxInt64
    /\ isCheck' = FALSE

ZeroPrio ==
    /\ insertedProcess' = 0
    /\ processesMapIdx' = <<>>
    /\ currentTime' = 0
    /\ minHeap' = <<>>
    /\ tempBurstDuration' = <<>>

Init ==
    /\ IsInput(input)
    /\ processes = input
    /\ policy = "none"
    /\ pc = "idle"
    /\ gantt = <<>>
    /\ schedule = <<>>
    /\ waitingTimes = <<>>
    /\ turnAroundTimes = <<>>
    /\ totalWait = 0
    /\ totalTurnaround = 0
    /\ lastCompletion = 0
    /\ i = 1
    /\ serviceTime = 0
    /\ waitingTime = 0
    /\ remainTime = <<>>
    /\ t = 0
    /\ curIdx = 1
    /\ numsOfCompletion = 0
    /\ minRemainTime = MaxInt64
    /\ isCheck = FALSE
    /\ insertedProcess = 0
    /\ processesMapIdx = <<>>
    /\ currentTime = 0
    /\ minHeap = <<>>
    /\ tempBurstDuration = <<>>
    /\ executed = <<>>

\* ------------------------------------------------------------------- FCFS
\* FCFSSchedule, lines 82-90: the locals.
FCFSStart ==
    /\ pc = "idle"
    /\ policy' = "FCFS"
    /\ pc' = "loop"
    /\ ZeroOut /\ ZeroFCFS /\ ZeroSJF /\ ZeroPrio
    /\ UNCHANGED <<input, processes, executed>>

\* Fault variant of FCFSWaiting: a process with arrival 0 waits 0.
FCFSWaitingReset(p, service, prevWaiting) ==
    IF p.ArrivalTime > 0 THEN service - p.ArrivalTime ELSE 0

\* Fault variant of FCFSWaiting: the arrival time is not subtracted.
FCFSWaitingNoArrival(p, service, prevWaiting) ==
    IF p.ArrivalTime > 0 THEN service ELSE prevWaiting

\* Line 92-94: the waiting time is recomputed only for ArrivalTime > 0 and is
\* otherwise the value the previous iteration left.
FCFSWaiting(p, service, prevWaiting) ==
    IF p.ArrivalTime > 0 THEN service - p.ArrivalTime ELSE prevWaiting

\* One iteration of the range loop, lines 91-121.
FCFSStep ==
    /\ policy = "FCFS" /\ pc = "loop" /\ i <= n
    /\ LET p == processes[i]
           w == FCFSWaiting(p, serviceTime, waitingTime)
           start == w + p.ArrivalTime
           turnaround == p.BurstDuration + w
           completion == Completion(p, w)
       IN  /\ waitingTime' = w
           /\ totalWait' = totalWait + w
           /\ totalTurnaround' = totalTurnaround + turnaround
           /\ lastCompletion' = completion
           /\ schedule' = Append(schedule, Row(p, w, turnaround, completion))
           /\ UNCHANGED <<waitingTimes, turnAroundTimes>>
           /\ serviceTime' = serviceTime + p.BurstDuration
           /\ gantt' = Append(gantt,
                  TimeSlice(p.ProcessID, start, serviceTime + p.BurstDuration))
           /\ i' = i + 1
    /\ UNCHANGED <<input, processes, policy, pc, sjfVars, prioVars, executed>>

\* Lines 123-130: the loop is over; the averages are totalWait / count,
\* totalTurnaround / count and count / lastCompletion, which the model keeps
\* as their numerators and denominators.
FCFSReport ==
    /\ policy = "FCFS" /\ pc = "loop" /\ i > n
    /\ pc' = "done"
    /\ UNCHANGED <<input, processes, policy, outVars, fcfsVars, sjfVars, prioVars,
                   executed>>

\* ------------------------------------------------------------------- SRTF
\* SJFSchedule, lines 246-262: the locals, and remainTime[i] = BurstDuration.
SJFStart ==
    /\ pc = "idle"
    /\ policy' = "SRTF"
    /\ pc' = "loop"
    /\ ZeroFCFS /\ ZeroPrio
    /\ remainTime' = [k \in 1..n |-> processes[k].BurstDuration]
    /\ waitingTimes' = Zeros(n)
    /\ t' = 0
    /\ curIdx' = 1
    /\ numsOfCompletion' = 0
    /\ minRemainTime' = MaxInt64
    /\ isCheck' = FALSE
    /\ gantt' = <<>>
    /\ schedule' = <<>>
    /\ turnAroundTimes' = <<>>
    /\ totalWait' = 0
    /\ totalTurnaround' = 0
    /\ lastCompletion' = 0
    /\ UNCHANGED <<input, processes, executed>>

\* Fault variant of SJFEligible: the arrival time is not looked at.
SJFEligibleNoArrival(p, remain, now, minRemain) ==
    remain < minRemain /\ remain > 0

\* Fault variant of SJFEligible: a process that ties with the minimum so far
\* replaces it.
SJFEligibleLastWins(p, remain, now, minRemain) ==
    p.ArrivalTime <= now /\ remain <= minRemain /\ remain > 0

\* Fault variant of SJFEligible: a process is eligible only after the tick of
\* its arrival.
SJFEligibleStrict(p, remain, now, minRemain) ==
    p.ArrivalTime < now /\ remain < minRemain /\ remain > 0

\* Line 266: the test of the scan.
SJFEligible(p, remain, now, minRemain) ==
    p.ArrivalTime <= now /\ remain < minRemain /\ remain > 0

\* Lines 265-271: the scan over all processes, from index k on, carrying
\* minRemainTime, curIdx and isCheck in st.
RECURSIVE SJFScan(_, _, _, _, _)
SJFScan(procs, remain, now, k, st) ==
    IF k > Len(procs) THEN st
    ELSE SJFScan(procs, remain, now, k + 1,
             IF SJFEligible(procs[k], remain[k], now, st.min)
             THEN [min |-> remain[k], cur |-> k, chk |-> TRUE]
             ELSE st)

SJFScanned ==
    SJFScan(processes, remainTime, t, 1,
            [min |-> minRemainTime, cur |-> curIdx, chk |-> isCheck])

\* Lines 264-276, the iteration in which the scan leaves isCheck false: the
\* clock advances and nothing else changes.
SJFIdleTick ==
    /\ policy = "SRTF" /\ pc = "loop" /\ numsOfCompletion < n
    /\ ~SJFScanned.chk
    /\ t' = t + 1
    /\ minRemainTime' = SJFScanned.min
    /\ curIdx' = SJFScanned.cur
    /\ isCheck' = SJFScanned.chk
    /\ UNCHANGED <<input, processes, policy, pc, outVars, fcfsVars, prioVars,
                   remainTime, numsOfCompletion, executed>>

\* Fault variant of SJFWaiting: the burst is not subtracted.
SJFWaitingNoBurst(p, stop) ==
    LET w == stop - p.ArrivalTime
    IN  IF w < 0 THEN 0 ELSE w

\* Line 294-297: the waiting time of a process that completes at stop.
SJFWaiting(p, stop) ==
    LET w == stop - p.BurstDuration - p.ArrivalTime
    IN  IF w < 0 THEN 0 ELSE w

\* Lines 264-301, the iteration that executes processes[curIdx] for one tick.
\* setStop is called only in the branch in which the process completes.
SJFExecTick ==
    /\ policy = "SRTF" /\ pc = "loop" /\ numsOfCompletion < n
    /\ SJFScanned.chk
    /\ LET cur == SJFScanned.cur
           g == appendGantt(gantt, processes[cur], t)
           left == remainTime[cur] - 1
           stop == t + 1
       IN  /\ curIdx' = cur
           /\ remainTime' = [remainTime EXCEPT ![cur] = left]
           /\ minRemainTime' = IF left = 0 THEN MaxInt64 ELSE left
           /\ IF left = 0
              THEN /\ numsOfCompletion' = numsOfCompletion + 1
                   /\ isCheck' = FALSE
                   /\ gantt' = setStop(g, stop)
                   /\ waitingTimes' =
                          [waitingTimes EXCEPT ![cur] = SJFWaiting(processes[cur], stop)]
              ELSE /\ numsOfCompletion' = numsOfCompletion
                   /\ isCheck' = TRUE
                   /\ gantt' = g
                   /\ waitingTimes' = waitingTimes
           /\ t' = t + 1
           /\ executed' = Append(executed, <<t, processes[cur].ProcessID>>)
    /\ UNCHANGED <<input, processes, policy, pc, fcfsVars, prioVars, schedule,
                   turnAroundTimes, totalWait, totalTurnaround, lastCompletion>>

\* The larger of the completions of rows 1..k (lines 192-194 and 307-309,
\* starting from lastCompletion = 0).
RECURSIVE MaxCompletion(_, _, _)
MaxCompletion(procs, waits, k) ==
    IF k = 0 THEN 0
    ELSE LET rest == MaxCompletion(procs, waits, k - 1)
             c == Completion(procs[k], waits[k])
         IN  IF rest < c THEN c ELSE rest

\* The schedule table of lines 190-204 and 305-319.
Rows(procs, waits, turns) ==
    [k \in 1..Len(procs) |->
        Row(procs[k], waits[k], turns[k], Completion(procs[k], waits[k]))]

\* Lines 303-327: the loop is over (numsOfCompletion = n).
SJFReport ==
    /\ policy = "SRTF" /\ pc = "loop" /\ numsOfCompletion >= n
    /\ LET turns == findTurnAroundTimes(processes, waitingTimes)
       IN  /\ turnAroundTimes' = turns
           /\ schedule' = Rows(processes, waitingTimes, turns)
           /\ lastCompletion' = MaxCompletion(processes, waitingTimes, n)
           /\ totalWait' = sum(waitingTimes)
           /\ totalTurnaround' = sum(turns)
    /\ pc' = "done"
    /\ UNCHANGED <<input, processes, policy, gantt, waitingTimes, fcfsVars,
                   sjfVars, prioVars, executed>>

\* --------------------------------------------------------------- Priority
\* sort.Slice(processes, less) of lines 149-151.  For slices of at most 12
\* elements the library sorts by insertion (insertionSortLessFunc): for each
\* position a in turn, the element moves left while less(it, its left
\* neighbour).  SortInsert moves the element at position a of s.
SortLess(p, q) == p.ArrivalTime < q.ArrivalTime

RECURSIVE SortInsert(_, _)
SortInsert(s, a) ==
    IF a > 1 /\ SortLess(s[a], s[a - 1])
    THEN SortInsert([s EXCEPT ![a] = s[a - 1], ![a - 1] = s[a]], a - 1)
    ELSE s

RECURSIVE SortFrom(_, _)
SortFrom(s, a) ==
    IF a > Len(s) THEN s ELSE SortFrom(SortInsert(s, a), a + 1)

sortSlice(s) == SortFrom(s, 2)

\* ProcessMinHeap, lines 217-241, under container/heap.
Less(h, a, b) == h[a].Priority < h[b].Priority

Swap(h, a, b) == [h EXCEPT ![a] = h[b], ![b] = h[a]]

\* heap.up(h, j): the parent of 0-based j is (j - 1) / 2, that is position
\* j \div 2 here; at the root the source computes i = j and stops.
RECURSIVE up(_, _)
up(h, j) ==
    IF j = 1 THEN h
    ELSE LET parent == j \div 2
         IN  IF ~Less(h, j, parent) THEN h
             ELSE up(Swap(h, parent, j), parent)

\* heap.down(h, i0, n) over the first m elements of h.
RECURSIVE down(_, _, _)
down(h, a, m) ==
    LET j1 == 2 * a
        j2 == j1 + 1
        j == IF j2 <= m /\ Less(h, j2, j1) THEN j2 ELSE j1
    IN  IF j1 > m THEN h
        ELSE IF ~Less(h, j, a) THEN h
        ELSE down(Swap(h, a, j), j, m)

\* heap.Push: ProcessMinHeap.Push appends, then up from the last position.
heapPush(h, x) == up(Append(h, x), Len(h) + 1)

\* heap.Pop on a non-empty heap: swap the root with the last element, sift
\* the new root down over the rest, and ProcessMinHeap.Pop removes the last.
heapPopped(h) ==
    LET m == Len(h) - 1
        d == down(Swap(h, 1, Len(h)), 1, m)
    IN  [x |-> d[Len(h)], rest |-> SubSeq(d, 1, m)]

\* Lines 155-159: the index of each process id in the sorted slice (a later
\* entry of a Go map overwrites an earlier one with the same key).
MapIdx(procs) ==
    [pid \in {procs[k].ProcessID : k \in 1..Len(procs)} |->
        CHOOSE k \in 1..Len(procs) :
            /\ procs[k].ProcessID = pid
            /\ \A l \in 1..Len(procs) : procs[l].ProcessID = pid => l <= k]

\* SJFPrioritySchedule, lines 134-159.  currentTime is read from processes[0]
\* before the slice is sorted; sort.Slice sorts the caller's slice in place.
\* (totalBurstDuration is written and never read.)
PriorityStart ==
    /\ pc = "idle"
    /\ policy' = "Priority"
    /\ pc' = "loop"
    /\ ZeroFCFS /\ ZeroSJF
    /\ currentTime' = processes[1].ArrivalTime
    /\ processes' = sortSlice(processes)
    /\ processesMapIdx' = MapIdx(processes')
    /\ tempBurstDuration' = [k \in 1..n |-> processes'[k].BurstDuration]
    /\ turnAroundTimes' = Zeros(n)
    /\ waitingTimes' = Zeros(n)
    /\ insertedProcess' = 0
    /\ minHeap' = <<>>
    /\ gantt' = <<>>
    /\ schedule' = <<>>
    /\ totalWait' = 0
    /\ totalTurnaround' = 0
    /\ lastCompletion' = 0
    /\ UNCHANGED <<input, executed>>

\* Lines 163-169: push every process whose ArrivalTime is the current time,
\* from index k on; st carries the heap and insertedProcess.
RECURSIVE PushArrivals(_, _, _, _)
PushArrivals(procs, now, k, st) ==
    IF k > Len(procs) THEN st
    ELSE PushArrivals(procs, now, k + 1,
             IF procs[k].ArrivalTime # now THEN st
             ELSE [heap |-> heapPush(st.heap, procs[k]),
                   inserted |-> st.inserted + 1])

\* Lines 162-170.
PriorityPushed ==
    IF insertedProcess < n
    THEN PushArrivals(processes, currentTime, 1,
                      [heap |-> minHeap, inserted |-> insertedProcess])
    ELSE [heap |-> minHeap, inserted |-> insertedProcess]

\* Fault variant of PriorityTurnAround: the clock is read before line 175
\* advances it.
PriorityTurnAroundStale(p, now) == now - 1 - p.ArrivalTime

\* Line 181: the turnaround of the process that completes in the tick that
\* ends at time now.
PriorityTurnAround(p, now) == now - p.ArrivalTime

\* Line 182.
PriorityWaiting(turnaround, burst) == turnaround - burst

\* Lines 161-188, an iteration whose heap.Pop finds the heap empty:
\* container/heap's Pop then indexes position -1 and the program panics.
PriorityPopEmpty ==
    /\ policy = "Priority" /\ pc = "loop"
    /\ PriorityPushed.heap = <<>>
    /\ pc' = "panic"
    /\ minHeap' = PriorityPushed.heap
    /\ insertedProcess' = PriorityPushed.inserted
    /\ UNCHANGED <<input, processes, policy, outVars, fcfsVars, sjfVars,
                   processesMapIdx, currentTime, tempBurstDuration, executed>>

\* Lines 161-188, an iteration that pops a process and runs it for one tick.
PriorityTick ==
    /\ policy = "Priority" /\ pc = "loop"
    /\ PriorityPushed.heap # <<>>
    /\ LET popped == heapPopped(PriorityPushed.heap)
           pMinPriority ==
               [popped.x EXCEPT !.BurstDuration = popped.x.BurstDuration - 1]
           now == currentTime + 1
           idx == processesMapIdx[pMinPriority.ProcessID]
           turnaround == PriorityTurnAround(pMinPriority, now)
           h == IF pMinPriority.BurstDuration > 0
                THEN heapPush(popped.rest, pMinPriority)
                ELSE popped.rest
       IN  /\ gantt' = setStop(appendGantt(gantt, pMinPriority, currentTime), now)
           /\ currentTime' = now
           /\ executed' = Append(executed, <<currentTime, pMinPriority.ProcessID>>)
           /\ minHeap' = h
           /\ insertedProcess' = PriorityPushed.inserted
           /\ IF pMinPriority.BurstDuration > 0
              THEN UNCHANGED <<turnAroundTimes, waitingTimes>>
              ELSE /\ turnAroundTimes' = [turnAroundTimes EXCEPT ![idx] = turnaround]
                   /\ waitingTimes' =
                          [waitingTimes EXCEPT ![idx] =
                              PriorityWaiting(turnaround, tempBurstDuration[idx])]
           /\ pc' = IF Len(h) = 0 /\ PriorityPushed.inserted = n
                    THEN "report" ELSE "loop"
    /\ UNCHANGED <<input, processes, policy, fcfsVars, sjfVars, schedule,
                   totalWait, totalTurnaround, lastCompletion,
                   processesMapIdx, tempBurstDuration>>

\* Lines 190-212.
PriorityReport ==
    /\ policy = "Priority" /\ pc = "report"
    /\ schedule' = Rows(processes, waitingTimes, turnAroundTimes)
    /\ lastCompletion' = MaxCompletion(processes, waitingTimes, n)
    /\ totalWait' = sum(waitingTimes)
    /\ totalTurnaround' = sum(turnAroundTimes)
    /\ pc' = "done"
    /\ UNCHANGED <<input, processes, policy, gantt, waitingTimes,
                   turnAroundTimes, fcfsVars, sjfVars, prioVars, executed>>

Next ==
    \/ FCFSStart
    \/ FCFSStep
    \/ FCFSReport
    \/ SJFStart
    \/ SJFIdleTick
    \/ SJFExecTick
    \/ SJFReport
    \/ PriorityStart
    \/ PriorityPopEmpty
    \/ PriorityTick
    \/ PriorityReport

Spec == Init /\ [][Next]_vars


\* ----------------------------------------------------------------- claims
\* The record of the loaded input with process id pid.
InputProcess(pid) ==
    CHOOSE p \in {input[k] : k \in 1..Len(input)} : p.ProcessID = pid

\* A run that has produced its statistics reports every process once.
Reported ==
    /\ pc = "done"
    /\ Len(schedule) = Len(input)
    /\ {schedule[k].ProcessID : k \in 1..Len(schedule)} =
           {input[k].ProcessID : k \in 1..Len(input)}

Waits == [k \in 1..Len(schedule) |-> schedule[k].Wait]
Turnarounds == [k \in 1..Len(schedule) |-> schedule[k].Turnaround]
Exits == [k \in 1..Len(schedule) |-> schedule[k].Exit]

RECURSIVE SumBursts(_)
SumBursts(procs) ==
    IF procs = <<>> THEN 0 ELSE procs[1].BurstDuration + SumBursts(Tail(procs))

RECURSIVE SumLengths(_)
SumLengths(g) ==
    IF g = <<>> THEN 0 ELSE (g[1].Stop - g[1].Start) + SumLengths(Tail(g))

\* C1: for every policy and every process, the reported turnaround is the
\* original burst plus the reported waiting time, and the reported completion
\* is the arrival plus the waiting time plus the original burst.
C1_StatsIdentities ==
    pc = "done" =>
        /\ Reported
        /\ \A k \in 1..Len(schedule) :
              LET r == schedule[k]
                  p == InputProcess(r.ProcessID)
              IN  /\ r.Turnaround = p.BurstDuration + r.Wait
                  /\ r.Exit = p.ArrivalTime + r.Wait + p.BurstDuration

\* A Priority run on a list that the sort reordered has finished, and one of
\* its processes waited.
C1_Witness ==
    /\ pc = "done" /\ policy = "Priority"
    /\ processes # input
    /\ \E k \in 1..Len(schedule) : schedule[k].Wait > 0

\* C2: the final timeline of every policy is ordered by start, pairwise
\* non-overlapping, and its lengths add up to the sum of the bursts.
C2_TimelineOrderedDisjointComplete ==
    pc = "done" =>
        /\ \A k \in 1..(Len(gantt) - 1) : gantt[k].Start <= gantt[k + 1].Start
        /\ \A a, b \in 1..Len(gantt) :
              a < b => \/ gantt[a].Stop <= gantt[b].Start
                       \/ gantt[b].Stop <= gantt[a].Start
        /\ SumLengths(gantt) = SumBursts(input)

\* C3: every interval of the final timeline of every policy has start < stop.
C3_IntervalsNonEmpty ==
    pc = "done" => \A k \in 1..Len(gantt) : gantt[k].Start < gantt[k].Stop

\* C4: under SRTF and under Priority every reported waiting time is >= 0.
C4_WaitingNonNegative ==
    (pc = "done" /\ policy \in {"SRTF", "Priority"}) =>
        /\ Reported
        /\ \A k \in 1..Len(schedule) : schedule[k].Wait >= 0

\* An SRTF run has finished in which a process ran from its arrival on
\* (waiting time 0) and another one waited.
C4_Witness ==
    /\ pc = "done" /\ policy = "SRTF"
    /\ \E k \in 1..Len(schedule) : schedule[k].Wait = 0
    /\ \E k \in 1..Len(schedule) : schedule[k].Wait > 0

\* C5: under FCFS every reported waiting time and turnaround time is >= 0.
C5_FCFSNonNegative ==
    (pc = "done" /\ policy = "FCFS") =>
        \A k \in 1..Len(schedule) :
            schedule[k].Wait >= 0 /\ schedule[k].Turnaround >= 0

\* C6: SRTF on P1(burst 5, arrival 0), P2(burst 2, arrival 1) yields the
\* timeline P1:0-1, P2:1-3, P1:3-7, waiting 2, 0, turnaround 7, 2 and
\* completion 7, 3.
C6_SRTFScenario ==
    (pc = "done" /\ policy = "SRTF" /\ input = SRTFScenario) =>
        /\ gantt = <<TimeSlice(1, 0, 1), TimeSlice(2, 1, 3), TimeSlice(1, 3, 7)>>
        /\ Waits = <<2, 0>>
        /\ Turnarounds = <<7, 2>>
        /\ Exits = <<7, 3>>

\* C7: FCFS on P1(burst 4, arrival 0), P2(burst 3, arrival 1), P3(burst 2,
\* arrival 2) yields waiting 0, 3, 5, turnaround 4, 6, 7, completion 4, 7, 9,
\* the timeline P1:0-4, P2:4-7, P3:7-9, total wait 8 and total turnaround 17
\* over 3 processes, and throughput 3 / 9.
C7_FCFSScenario ==
    (pc = "done" /\ policy = "FCFS" /\ input = FCFSScenario) =>
        /\ Waits = <<0, 3, 5>>
        /\ Turnarounds = <<4, 6, 7>>
        /\ Exits = <<4, 7, 9>>
        /\ gantt = <<TimeSlice(1, 0, 4), TimeSlice(2, 4, 7), TimeSlice(3, 7, 9)>>
        /\ totalWait = 8
        /\ totalTurnaround = 17
        /\ n = 3
        /\ lastCompletion = 9

C7_Witness == pc = "done" /\ policy = "FCFS" /\ input = FCFSScenario

\* C8: a single process with arrival 0 is reported with waiting time 0 and
\* completion equal to its burst, under each of the three policies.
C8_SingleProcess ==
    (pc = "done" /\ Len(input) = 1 /\ input[1].ArrivalTime = 0) =>
        /\ Len(schedule) = 1
        /\ schedule[1].Wait = 0
        /\ schedule[1].Exit = input[1].BurstDuration

\* An SRTF run of a single process with arrival 0 and a burst of several
\* ticks has finished.
C8_Witness ==
    /\ pc = "done" /\ policy = "SRTF"
    /\ Len(input) = 1 /\ input[1].ArrivalTime = 0
    /\ input[1].BurstDuration > 1

\* C9: every run ends normally: a run that is not done can take a step.
C9_Terminates == pc = "done" \/ ENABLED Next

\* C10: running a policy leaves the caller's process list as it was loaded.
C10_ListUnchanged == processes = input


\* ------------------------------------------------- the execution history
\* The ticks of the history in which process pid executed.
ExecTicks(pid) ==
    {executed[k][1] : k \in {j \in 1..Len(executed) : executed[j][2] = pid}}

\* What is left of the burst of process p of the input at the start of tick:
\* its burst less the ticks before it in which it executed.
RemainingAt(p, tick) ==
    p.BurstDuration - Cardinality({x \in ExecTicks(p.ProcessID) : x < tick})

\* The processes of the input that have arrived by tick and are not complete.
EligibleAt(tick) ==
    {p \in {input[k] : k \in 1..Len(input)} :
        p.ArrivalTime <= tick /\ RemainingAt(p, tick) > 0}

\* Those of them with the smallest remaining burst.
ShortestAt(tick) ==
    LET eligible == EligibleAt(tick)
    IN  {p \in eligible :
            \A q \in eligible : RemainingAt(p, tick) <= RemainingAt(q, tick)}

\* The position of process pid in the list the scheduler received.
IndexOf(pid) == CHOOSE k \in 1..Len(processes) : processes[k].ProcessID = pid

\* The process id executed in entry k of the history, and its tick.
TickOf(k) == executed[k][1]
PidOf(k) == executed[k][2]

\* Entry k continues the process of the tick just before it.
Continues(k) ==
    k > 1 /\ TickOf(k - 1) = TickOf(k) - 1 /\ PidOf(k - 1) = PidOf(k)

\* The latest entry of the history.  The history only grows at its end, so a
\* property of the latest entry in every reachable state is a property of
\* every executed tick.
Latest == {Len(executed)} \ {0}

\* C12: in every tick that SRTF executes, the executed process has arrived
\* and no eligible process has a smaller remaining burst.
C12_SRTFSelectsShortest ==
    policy = "SRTF" =>
        \A k \in Latest : InputProcess(PidOf(k)) \in ShortestAt(TickOf(k))

\* SRTF has preempted a process: a tick executes another process than the
\* tick before it, whose process is still eligible with a larger remainder.
C12_Witness ==
    /\ policy = "SRTF"
    /\ \E k \in 2..Len(executed) :
          /\ TickOf(k - 1) = TickOf(k) - 1
          /\ PidOf(k - 1) # PidOf(k)
          /\ InputProcess(PidOf(k - 1)) \in EligibleAt(TickOf(k))
          /\ RemainingAt(InputProcess(PidOf(k - 1)), TickOf(k)) >
                 RemainingAt(InputProcess(PidOf(k)), TickOf(k))

\* C13 as stated: in every tick that SRTF executes, the executed process is
\* the one with the lowest input index among the eligible processes that
\* share the smallest remaining burst.
C13_TieLowestIndex ==
    policy = "SRTF" =>
        \A k \in Latest :
            \A p \in ShortestAt(TickOf(k)) :
                IndexOf(PidOf(k)) <= IndexOf(p.ProcessID)

\* The process that executed in the tick before entry k, when it is among the
\* eligible processes with the smallest remaining burst at entry k.
PreviousOf(k, shortest) ==
    {p \in shortest :
        k > 1 /\ TickOf(k - 1) = TickOf(k) - 1 /\ PidOf(k - 1) = p.ProcessID}

PreviousTied(k) == PreviousOf(k, ShortestAt(TickOf(k)))

\* C13 as amended: among the eligible processes that share the smallest
\* remaining burst, SRTF executes the one that executed in the previous tick
\* when it is one of them, and the one with the lowest input index otherwise.
C13_TieKeepsRunning ==
    policy = "SRTF" =>
        \A k \in Latest :
            LET shortest == ShortestAt(TickOf(k))
                previous == PreviousOf(k, shortest)
            IN  /\ InputProcess(PidOf(k)) \in shortest
                /\ IF previous # {}
                   THEN InputProcess(PidOf(k)) \in previous
                   ELSE \A p \in shortest :
                            IndexOf(PidOf(k)) <= IndexOf(p.ProcessID)

\* SRTF has executed a tick in which the process of the previous tick tied
\* with a process of a lower input index.
C13_Witness ==
    /\ policy = "SRTF"
    /\ \E k \in 1..Len(executed) :
          \E p \in PreviousTied(k) : \E q \in ShortestAt(TickOf(k)) :
              IndexOf(q.ProcessID) < IndexOf(p.ProcessID)


\* C14: in SRTF, after every tick in which a process executes, the last
\* interval of the timeline stops at the advanced clock t.
C14_LastStopIsClock ==
    (/\ policy = "SRTF" /\ pc = "loop"
     /\ executed # <<>> /\ TickOf(Len(executed)) = t - 1)
        => gantt[Len(gantt)].Stop = t

\* C15: in every tick that Priority executes, no process of the input that
\* has arrived and is not complete has a smaller priority value than the
\* executed process.
C15_PrioritySelectsMinimum ==
    policy = "Priority" =>
        \A k \in Latest :
            \A p \in EligibleAt(TickOf(k)) :
                InputProcess(PidOf(k)).Priority <= p.Priority

RECURSIVE MaxOf(_)
MaxOf(S) ==
    LET x == CHOOSE y \in S : TRUE
    IN  IF S = {x} THEN x
        ELSE LET m == MaxOf(S \ {x}) IN IF x > m THEN x ELSE m

\* C16: under SRTF and Priority every process executes in exactly as many
\* ticks as its burst, none of them before its arrival, and its reported
\* waiting time is the number of ticks from its arrival up to its completion
\* in which it did not execute.
C16_WaitingIsIdleTicks ==
    (pc = "done" /\ policy \in {"SRTF", "Priority"}) =>
        /\ Reported
        /\ \A k \in 1..Len(schedule) :
              LET p == InputProcess(schedule[k].ProcessID)
                  ticks == ExecTicks(p.ProcessID)
              IN  /\ Cardinality(ticks) = p.BurstDuration
                  /\ \A x \in ticks : x >= p.ArrivalTime
                  /\ schedule[k].Wait =
                         Cardinality({x \in p.ArrivalTime..MaxOf(ticks) :
                                         x \notin ticks})

\* A Priority run has finished in which a process was preempted: it waited
\* between two of its ticks.
C16_Witness ==
    /\ pc = "done" /\ policy = "Priority"
    /\ \E k \in 1..Len(schedule) :
          LET ticks == ExecTicks(schedule[k].ProcessID)
          IN  /\ schedule[k].Wait > 0
              /\ \E x \in ticks : x + 1 \notin ticks /\ x + 1 < MaxOf(ticks)

\* C17: FCFS gives process k, with serviceTime the sum of the bursts before
\* it, the waiting time serviceTime - arrival when its arrival is > 0 and the
\* waiting time of process k - 1 (0 for the first) when its arrival is 0, and
\* the interval from waiting time + arrival to serviceTime + burst.
C17_FCFSCarryOver ==
    policy = "FCFS" =>
        /\ Len(gantt) = Len(schedule)
        /\ pc = "done" => Len(schedule) = Len(processes)
        /\ \A k \in 1..Len(schedule) :
              LET p == processes[k]
                  service == SumBursts(SubSeq(processes, 1, k - 1))
                  w == schedule[k].Wait
              IN  /\ schedule[k].ProcessID = p.ProcessID
                  /\ w = IF p.ArrivalTime > 0 THEN service - p.ArrivalTime
                         ELSE IF k = 1 THEN 0 ELSE schedule[k - 1].Wait
                  /\ gantt[k] = TimeSlice(p.ProcessID, w + p.ArrivalTime,
                                          service + p.BurstDuration)

\* An FCFS run has finished in which a process with arrival 0 took over a
\* waiting time other than 0 from the process before it.
C17_Witness ==
    /\ pc = "done" /\ policy = "FCFS"
    /\ \E k \in 2..Len(schedule) :
          processes[k].ArrivalTime = 0 /\ schedule[k].Wait # 0

\* C18: no two adjacent intervals of a final timeline have the same process.
C18_AdjacentDiffer ==
    pc = "done" =>
        \A k \in 1..(Len(gantt) - 1) : gantt[k].PID # gantt[k + 1].PID

\* A Priority run has finished in which a process executed in two ticks in a
\* row, and the timeline has several intervals.
C18_Witness ==
    /\ pc = "done" /\ policy = "Priority"
    /\ Len(gantt) > 1
    /\ \E k \in 2..Len(executed) : Continues(k)

\* C19: in Priority the heap is not empty whenever the loop pops from it, and
\* the loop has exited only with the heap empty and every process pushed.
C19_PopFindsProcess ==
    policy = "Priority" =>
        /\ pc = "loop" => PriorityPushed.heap # <<>>
        /\ pc \in {"report", "done"} => minHeap = <<>> /\ insertedProcess = n

\* C20: no interval of a final timeline starts before its process arrives.
C20_StartAfterArrival ==
    pc = "done" =>
        \A k \in 1..Len(gantt) :
            gantt[k].Start >= InputProcess(gantt[k].PID).ArrivalTime

====
